---- MODULE Spec2Model ----
(***************************************************************************)
(* The enrollment duplicate scanner of app.js over the `takes` table of    *)
(* app.sql: load app.json, filter data.takes by a fixed student ID, count  *)
(* the matches per course_id in a plain object, report the course_ids      *)
(* counted more than once.                                                 *)
(*                                                                         *)
(* JavaScript strings are sequences of one-character strings, so that the  *)
(* property-key rules of a plain object (array-index keys, keys inherited  *)
(* from Object.prototype) are computed from the characters.                *)
(***************************************************************************)
EXTENDS Integers, Sequences, FiniteSets, TLC

\* Bounds of the model.
MaxRecords == 4
MaxRuns == 2

-----------------------------------------------------------------------------
\* JavaScript values.  Every value carries the three fields, so that values
\* of different types can be compared.

Undefined == [t |-> "undefined", n |-> 0, s |-> <<>>]
Num(n) == [t |-> "number", n |-> n, s |-> <<>>]
NaN == [t |-> "number", n |-> 0, s |-> <<"NaN">>]
Str(s) == [t |-> "string", n |-> 0, s |-> s]
Fn(name) == [t |-> "function", n |-> 0, s |-> name]
ObjectPrototype == [t |-> "object", n |-> 0, s |-> <<>>]

DigitChars == <<"0", "1", "2", "3", "4", "5", "6", "7", "8", "9">>

IsDigit(c) == \E i \in DOMAIN DigitChars : DigitChars[i] = c

DigitVal(c) == (CHOOSE i \in DOMAIN DigitChars : DigitChars[i] = c) - 1

IsDigits(s) == \A i \in DOMAIN s : IsDigit(s[i])

\* StringToNumber on the strings of this model: the empty string is 0, a
\* string of decimal digits is its value, any other string is NaN.
StringToNumber(s) ==
    LET V[i \in 0..Len(s)] ==
            IF i = 0 THEN 0 ELSE V[i - 1] * Len(DigitChars) + DigitVal(s[i])
    IN  IF IsDigits(s) THEN Num(V[Len(s)]) ELSE NaN

\* Number::toString for the non-negative integers of this model.
RECURSIVE NumberToString(_)
NumberToString(n) ==
    IF n < Len(DigitChars)
    THEN <<DigitChars[n + 1]>>
    ELSE NumberToString(n \div Len(DigitChars))
             \o <<DigitChars[(n % Len(DigitChars)) + 1]>>

\* Function.prototype.toString of a built-in function.
NativeSource(name) ==
    <<"f", "u", "n", "c", "t", "i", "o", "n", " ">> \o name
        \o <<"(", ")", " ", "{", " ", "[", "n", "a", "t", "i", "v", "e", " ",
             "c", "o", "d", "e", "]", " ", "}">>

\* Object.prototype.toString of an ordinary object.
ObjectTag ==
    <<"[", "o", "b", "j", "e", "c", "t", " ", "O", "b", "j", "e", "c", "t", "]">>

ToPrimitive(v) ==
    CASE v.t = "function" -> Str(NativeSource(v.s))
      [] v.t = "object" -> Str(ObjectTag)
      [] OTHER -> v

ToStringJS(v) ==
    LET p == ToPrimitive(v)
    IN  CASE p.t = "string" -> p.s
          [] p.t = "number" -> IF p = NaN THEN <<"N", "a", "N">> ELSE NumberToString(p.n)
          [] OTHER -> <<"u", "n", "d", "e", "f", "i", "n", "e", "d">>

ToNumber(v) ==
    LET p == ToPrimitive(v)
    IN  CASE p.t = "number" -> p
          [] p.t = "string" -> StringToNumber(p.s)
          [] OTHER -> NaN

ToBoolean(v) ==
    CASE v.t = "undefined" -> FALSE
      [] v.t = "number" -> v # NaN /\ v.n # 0
      [] v.t = "string" -> v.s # <<>>
      [] OTHER -> TRUE

\* a == b, for primitive values.
LooseEq(a, b) ==
    IF a.t = b.t THEN a = b
    ELSE IF {a.t, b.t} = {"number", "string"} THEN ToNumber(a) = ToNumber(b) /\ ToNumber(a) # NaN
    ELSE FALSE

\* a === b
StrictEq(a, b) == a.t = b.t /\ a = b /\ a # NaN

\* a || b
LogicalOr(a, b) == IF ToBoolean(a) THEN a ELSE b

\* a + b
Add(a, b) ==
    LET pa == ToPrimitive(a)
        pb == ToPrimitive(b)
    IN  IF pa.t = "string" \/ pb.t = "string"
        THEN Str(ToStringJS(pa) \o ToStringJS(pb))
        ELSE LET na == ToNumber(pa)
                 nb == ToNumber(pb)
             IN  IF na = NaN \/ nb = NaN THEN NaN ELSE Num(na.n + nb.n)

\* a > b, where at most one of a and b is a string.
GreaterThan(a, b) ==
    LET na == ToNumber(a)
        nb == ToNumber(b)
    IN  na # NaN /\ nb # NaN /\ na.n > nb.n

-----------------------------------------------------------------------------
\* Plain objects.  An object created by {} is the sequence of its own
\* properties [key, value] in creation order; its prototype is
\* Object.prototype.

EmptyObject == <<>>

ProtoKey == <<"_", "_", "p", "r", "o", "t", "o", "_", "_">>

ConstructorKey == <<"c", "o", "n", "s", "t", "r", "u", "c", "t", "o", "r">>

\* The data properties of Object.prototype other than constructor.
ObjectPrototypeMethods ==
    { <<"h", "a", "s", "O", "w", "n", "P", "r", "o", "p", "e", "r", "t", "y">>,
      <<"i", "s", "P", "r", "o", "t", "o", "t", "y", "p", "e", "O", "f">>,
      <<"p", "r", "o", "p", "e", "r", "t", "y", "I", "s", "E", "n", "u", "m", "e", "r", "a", "b", "l", "e">>,
      <<"t", "o", "L", "o", "c", "a", "l", "e", "S", "t", "r", "i", "n", "g">>,
      <<"t", "o", "S", "t", "r", "i", "n", "g">>,
      <<"v", "a", "l", "u", "e", "O", "f">>,
      <<"_", "_", "d", "e", "f", "i", "n", "e", "G", "e", "t", "t", "e", "r", "_", "_">>,
      <<"_", "_", "d", "e", "f", "i", "n", "e", "S", "e", "t", "t", "e", "r", "_", "_">>,
      <<"_", "_", "l", "o", "o", "k", "u", "p", "G", "e", "t", "t", "e", "r", "_", "_">>,
      <<"_", "_", "l", "o", "o", "k", "u", "p", "S", "e", "t", "t", "e", "r", "_", "_">> }

HasOwnProperty(O, k) == \E i \in DOMAIN O : O[i].key = k

OwnIndex(O, k) == CHOOSE i \in DOMAIN O : O[i].key = k

\* course (a property key): ToPropertyKey of a string or a number.
ToPropertyKey(v) == ToStringJS(v)

\* O[k] read: an own property, else what Object.prototype holds under k (the
\* __proto__ getter returns the prototype itself), else undefined.
Get(O, k) ==
    IF HasOwnProperty(O, k) THEN O[OwnIndex(O, k)].value
    ELSE IF k = ProtoKey THEN ObjectPrototype
    ELSE IF k = ConstructorKey THEN Fn(<<"O", "b", "j", "e", "c", "t">>)
    ELSE IF k \in ObjectPrototypeMethods THEN Fn(k)
    ELSE Undefined

\* O[k] = v: an own property is updated; the inherited __proto__ setter is
\* called instead of creating a property, and creates none (it ignores a
\* primitive v); any other key becomes a new own property, last in creation
\* order.
Set(O, k, v) ==
    IF HasOwnProperty(O, k) THEN [O EXCEPT ![OwnIndex(O, k)].value = v]
    ELSE IF k = ProtoKey THEN O
    ELSE Append(O, [key |-> k, value |-> v])

\* The largest array index, 2^32 - 2, as a numeral.
MaxArrayIndex == <<"4", "2", "9", "4", "9", "6", "7", "2", "9", "4">>

\* a < b for canonical numerals (digits, no leading zero).
NumeralLess(a, b) ==
    \/ Len(a) < Len(b)
    \/ /\ Len(a) = Len(b)
       /\ \E i \in DOMAIN a :
              /\ \A j \in 1..(i - 1) : a[j] = b[j]
              /\ DigitVal(a[i]) < DigitVal(b[i])

\* A property key that is an array index: the canonical numeral of an
\* integer in 0 .. 2^32 - 2.
IsArrayIndex(k) ==
    /\ k # <<>>
    /\ IsDigits(k)
    /\ (Len(k) = 1 \/ k[1] # "0")
    /\ (k = MaxArrayIndex \/ NumeralLess(k, MaxArrayIndex))

RECURSIVE AscendingIndices(_)
AscendingIndices(S) ==
    IF S = {} THEN <<>>
    ELSE LET m == CHOOSE x \in S : \A y \in S \ {x} : NumeralLess(x, y)
         IN  <<m>> \o AscendingIndices(S \ {m})

\* OrdinaryOwnPropertyKeys: the array-index keys in ascending numeric order,
\* then the other string keys in creation order.
OwnPropertyKeys(O) ==
    LET created == [i \in DOMAIN O |-> O[i].key]
        indices == {created[i] : i \in {j \in DOMAIN O : IsArrayIndex(created[j])}}
    IN  AscendingIndices(indices) \o SelectSeq(created, LAMBDA k : ~IsArrayIndex(k))

\* Faulty variant of ObjectEntries: creation order for every key.
ObjectEntriesCreationOrder(O) == O

\* Object.entries(O): the [key, value] pairs in OwnPropertyKeys order.
ObjectEntries(O) ==
    LET keys == OwnPropertyKeys(O)
    IN  [i \in DOMAIN keys |-> [key |-> keys[i], value |-> Get(O, keys[i])]]

\* Array.prototype.filter: a new array of the elements, in index order, for
\* which the callback returned true; kept[k] is what the callback returned
\* for arr[k].
ArrayFilter(arr, kept) ==
    LET A[k \in 0..Len(arr)] ==
            IF k = 0 THEN <<>>
            ELSE IF kept[k] THEN Append(A[k - 1], arr[k]) ELSE A[k - 1]
    IN  A[Len(arr)]

-----------------------------------------------------------------------------
\* The statements of app.js as operators.

\* const targetID = "8912";
targetID == Str(<<"8", "9", "1", "2">>)

\* Faulty variant of FindRecords: the matches are collected in reverse.
FindRecordsReversed(takes, target) ==
    LET m == ArrayFilter(takes, [k \in DOMAIN takes |-> StrictEq(takes[k].ID, target)])
    IN  [i \in DOMAIN m |-> m[Len(m) + 1 - i]]

\* Faulty variant of FindRecords: the ID is not compared.
FindRecordsAny(takes, target) == takes

\* data.takes.filter(entry => entry.ID === targetID)
FindRecords(takes, target) ==
    ArrayFilter(takes, [k \in DOMAIN takes |-> StrictEq(takes[k].ID, target)])

\* courseCount[course] = (courseCount[course] || 0) + 1, course being
\* entry.course_id.
CountStep(count, entry) ==
    LET course == ToPropertyKey(entry.course_id)
    IN  Set(count, course, Add(LogicalOr(Get(count, course), Num(0)), Num(1)))

\* const courseCount = {}; results.forEach(entry => ...)
CountByCourse(matched) ==
    LET C[k \in 0..Len(matched)] ==
            IF k = 0 THEN EmptyObject ELSE CountStep(C[k - 1], matched[k])
    IN  C[Len(matched)]

\* Object.entries(courseCount).filter(([_, count]) => count > 1)
DetectDuplicates(count) ==
    LET entries == ObjectEntries(count)
    IN  ArrayFilter(entries, [k \in DOMAIN entries |-> GreaterThan(entries[k].value, Num(1))])

-----------------------------------------------------------------------------
\* The state of one process running app.js, and of the file it reads.

VARIABLES
    file,         \* app.json: [kind, takes]
    data,         \* const data (line 4)
    results,      \* const results (line 11)
    courseCount,  \* const courseCount (line 17)
    duplicates,   \* const duplicates (line 23)
    out,          \* what console.log has written, one message per call
    err,          \* the uncaught exception the process died of, or "none"
    pc,           \* the statement to execute next
    run,          \* how many times the pipeline has been started on data
    prev          \* what the previous run of the pipeline produced

vars == <<file, data, results, courseCount, duplicates, out, err, pc, run, prev>>

\* A binding that is not initialised yet.
Uninitialised == [t |-> "undefined", v |-> <<>>]
ArrayValue(a) == [t |-> "array", v |-> a]
ObjectValue(o) == [t |-> "object", v |-> o]

NoData == [t |-> "undefined", hasTakes |-> FALSE, takes |-> <<>>]

\* A row of takes (app.sql): the columns app.js reads, and sec_id, which
\* completes the primary key.
Row(id, course, sec) == [ID |-> id, course_id |-> Str(course), sec_id |-> Str(sec)]

CS101 == <<"C", "S", "1", "0", "1">>
CS202 == <<"C", "S", "2", "0", "2">>
OtherID == Str(<<"1", "1", "1", "1">>)
NumericID == StringToNumber(targetID.s)
Sec1 == <<"1">>
Sec2 == <<"2">>

\* Rows that differ in who took the course: the target student, another
\* student, and an export that wrote the target's ID as a JSON number.
GeneralRows ==
    {Row(id, c, Sec1) : id \in {targetID, OtherID, NumericID}, c \in {CS101, CS202}}

\* Rows of the target student that differ in the form of the course_id: a
\* course code, array-index numerals, the numeral of 2^32 - 1 (ten
\* characters, no array index), keys of Object.prototype.
CountRows ==
    {Row(targetID, c, Sec1) :
        c \in {CS101, <<"1", "0">>, <<"7">>,
               <<"4", "2", "9", "4", "9", "6", "7", "2", "9", "5">>,
               <<"t", "o", "S", "t", "r", "i", "n", "g">>, ProtoKey}}
    \cup {Row(OtherID, CS101, Sec1)}

\* Rows that differ in the section.
KeyRows ==
    {Row(id, c, sec) : id \in {targetID, OtherID}, c \in {CS101, CS202}, sec \in {Sec1, Sec2}}

\* PRIMARY KEY (ID, course_id, sec_id) of takes.
PrimaryKey(takes) ==
    \A i, j \in DOMAIN takes :
        (/\ takes[i].ID = takes[j].ID
         /\ takes[i].course_id = takes[j].course_id
         /\ takes[i].sec_id = takes[j].sec_id) => i = j

SeqsUpTo(S, n) == UNION {[1..k -> S] : k \in 0..n}

\* The contents app.json can have: text that is not JSON, a JSON object
\* without a takes field, a JSON object whose takes is an array of rows.
Files(rows) ==
    {[kind |-> "malformed", takes |-> <<>>], [kind |-> "noTakes", takes |-> <<>>]}
    \cup {[kind |-> "ok", takes |-> t] : t \in SeqsUpTo(rows, MaxRecords)}

InitWith(files) ==
    /\ file \in files
    /\ data = NoData
    /\ results = Uninitialised
    /\ courseCount = Uninitialised
    /\ duplicates = Uninitialised
    /\ out = <<>>
    /\ err = "none"
    /\ pc = "load"
    /\ run = 1
    /\ prev = [results |-> Uninitialised, courseCount |-> Uninitialised,
               duplicates |-> Uninitialised, out |-> <<>>]

Init == InitWith(Files(GeneralRows))

InitCount == InitWith(Files(CountRows))

InitKey == InitWith(Files(KeyRows))

\* A call of console.log.
Message(kind, n, key, value, records) ==
    [kind |-> kind, n |-> n, key |-> key, value |-> value, records |-> records]

\* JSON.parse(fs.readFileSync('app.json', 'utf8'))
JSONParse(f) ==
    CASE f.kind = "malformed" -> [threw |-> TRUE, value |-> NoData]
      [] f.kind = "noTakes" ->
            [threw |-> FALSE, value |-> [t |-> "object", hasTakes |-> FALSE, takes |-> <<>>]]
      [] OTHER ->
            [threw |-> FALSE, value |-> [t |-> "object", hasTakes |-> TRUE, takes |-> f.takes]]

\* Faulty variant of Load: a parse failure is swallowed and an empty takes
\* is used.
LoadLenient ==
    /\ pc = "load"
    /\ data' = IF JSONParse(file).threw
               THEN [t |-> "object", hasTakes |-> TRUE, takes |-> <<>>]
               ELSE JSONParse(file).value
    /\ pc' = "filter"
    /\ UNCHANGED <<file, results, courseCount, duplicates, out, err, run, prev>>

\* Line 4.  A SyntaxError thrown by JSON.parse is not caught.
Load ==
    /\ pc = "load"
    /\ LET r == JSONParse(file)
       IN  IF r.threw
           THEN /\ err' = "SyntaxError"
                /\ pc' = "error"
                /\ UNCHANGED data
           ELSE /\ data' = r.value
                /\ pc' = "filter"
                /\ UNCHANGED err
    /\ UNCHANGED <<file, results, courseCount, duplicates, out, run, prev>>

\* Faulty variant of Filter: the matches are moved out of data.takes.
FilterInPlace ==
    /\ pc = "filter"
    /\ data.hasTakes
    /\ results' = ArrayValue(FindRecords(data.takes, targetID))
    /\ data' = [data EXCEPT !.takes =
                   ArrayFilter(data.takes,
                       [k \in DOMAIN data.takes |-> ~StrictEq(data.takes[k].ID, targetID)])]
    /\ pc' = "branch"
    /\ UNCHANGED <<file, courseCount, duplicates, out, err, run, prev>>

\* Line 11.  Without a takes field data.takes is undefined and reading its
\* filter property throws a TypeError, which is not caught.
Filter ==
    /\ pc = "filter"
    /\ IF data.hasTakes
       THEN /\ results' = ArrayValue(FindRecords(data.takes, targetID))
            /\ pc' = "branch"
            /\ UNCHANGED err
       ELSE /\ err' = "TypeError"
            /\ pc' = "error"
            /\ UNCHANGED results
    /\ UNCHANGED <<file, data, courseCount, duplicates, out, run, prev>>

\* Lines 13-15.
ReportFound ==
    /\ pc = "branch"
    /\ Len(results.v) > 0
    /\ out' = out \o << Message("found", Len(results.v), targetID.s, Undefined, <<>>),
                        Message("records", 0, <<>>, Undefined, results.v) >>
    /\ pc' = "count"
    /\ UNCHANGED <<file, data, results, courseCount, duplicates, err, run, prev>>

\* Lines 13, 34-35.
ReportNone ==
    /\ pc = "branch"
    /\ ~(Len(results.v) > 0)
    /\ out' = Append(out, Message("noRecords", 0, targetID.s, Undefined, <<>>))
    /\ pc' = "done"
    /\ UNCHANGED <<file, data, results, courseCount, duplicates, err, run, prev>>

\* Faulty variant of Count: the matches are consumed (shift) while counted.
CountDraining ==
    /\ pc = "count"
    /\ courseCount' = ObjectValue(CountByCourse(results.v))
    /\ results' = ArrayValue(<<>>)
    /\ pc' = "detect"
    /\ UNCHANGED <<file, data, duplicates, out, err, run, prev>>

\* Lines 17-21.
Count ==
    /\ pc = "count"
    /\ courseCount' = ObjectValue(CountByCourse(results.v))
    /\ pc' = "detect"
    /\ UNCHANGED <<file, data, results, duplicates, out, err, run, prev>>

\* Line 23.
Detect ==
    /\ pc = "detect"
    /\ duplicates' = ArrayValue(DetectDuplicates(courseCount.v))
    /\ pc' = "report"
    /\ UNCHANGED <<file, data, results, courseCount, out, err, run, prev>>

\* duplicates.forEach(([courseId, count]) => console.log(...))
DuplicateLines(dups) ==
    [i \in DOMAIN dups |-> Message("duplicate", 0, dups[i].key, dups[i].value, <<>>)]

\* Faulty variant of ReportDuplicates: the else of line 30 is lost.
ReportDuplicatesNoElse ==
    /\ pc = "report"
    /\ out' = (IF Len(duplicates.v) > 0
               THEN out \o <<Message("duplicatesFound", 0, <<>>, Undefined, <<>>)>>
                        \o DuplicateLines(duplicates.v)
               ELSE out)
              \o <<Message("noDuplicates", 0, <<>>, Undefined, <<>>)>>
    /\ pc' = "done"
    /\ UNCHANGED <<file, data, results, courseCount, duplicates, err, run, prev>>

\* Lines 25-32.
ReportDuplicates ==
    /\ pc = "report"
    /\ out' = IF Len(duplicates.v) > 0
              THEN out \o <<Message("duplicatesFound", 0, <<>>, Undefined, <<>>)>>
                       \o DuplicateLines(duplicates.v)
              ELSE Append(out, Message("noDuplicates", 0, <<>>, Undefined, <<>>))
    /\ pc' = "done"
    /\ UNCHANGED <<file, data, results, courseCount, duplicates, err, run, prev>>

\* The pipeline of lines 11-36 is started again on the data in memory; what
\* the finished run produced is kept in prev.
Rerun ==
    /\ pc = "done"
    /\ run < MaxRuns
    /\ prev' = [results |-> results, courseCount |-> courseCount,
                duplicates |-> duplicates, out |-> out]
    /\ results' = Uninitialised
    /\ courseCount' = Uninitialised
    /\ duplicates' = Uninitialised
    /\ out' = <<>>
    /\ run' = run + 1
    /\ pc' = "filter"
    /\ UNCHANGED <<file, data, err>>

Next ==
    \/ Load
    \/ Filter
    \/ ReportFound
    \/ ReportNone
    \/ Count
    \/ Detect
    \/ ReportDuplicates
    \/ Rerun

Spec == Init /\ [][Next]_vars

SpecCount == InitCount /\ [][Next]_vars

SpecKey == InitKey /\ [][Next]_vars

-----------------------------------------------------------------------------
\* Properties.

\* The statements after line 11: results is initialised.
Filtered == pc \in {"branch", "count", "detect", "report", "done"}

\* The statements after line 21 and after line 23.
Counted == pc \in {"detect", "report", "done"}
Detected == pc \in {"report", "done"}

\* The ID of a row is the string targetID.
IsTarget(row) == row.ID.t = "string" /\ row.ID.s = targetID.s

MatchingIndices(takes) == {i \in DOMAIN takes : IsTarget(takes[i])}

Times(seq, x) == Cardinality({i \in DOMAIN seq : seq[i] = x})

KthSmallest(S, k) == CHOOSE i \in S : Cardinality({j \in S : j < i}) = k - 1

\* C4: the result of findRecords is the sub-sequence of the matching input
\* records in their original order: the k-th result is the k-th matching
\* input record, and a matching record occurring n times in the input occurs
\* n times in the result.
C4_OrderPreserved ==
    Filtered =>
        LET idx == MatchingIndices(data.takes)
        IN  /\ Len(results.v) = Cardinality(idx)
            /\ \A k \in DOMAIN results.v : results.v[k] = data.takes[KthSmallest(idx, k)]
            /\ \A i \in idx : Times(results.v, data.takes[i]) = Times(data.takes, data.takes[i])

\* C4 happens: two different matches with a non-matching row between them,
\* and one match occurring twice.
C4_Witness ==
    /\ pc = "branch"
    /\ Len(results.v) = MaxRecords - 1
    /\ results.v[1] # results.v[2]
    /\ results.v[1] = results.v[Len(results.v)]
    /\ ~IsTarget(data.takes[2])

Kinds(messages) == [i \in DOMAIN messages |-> messages[i].kind]

C6_FailFast ==
    file.kind # "ok" =>
        /\ out = <<>>
        /\ pc \in {"load", "filter", "error"}
        /\ (pc = "load" => ENABLED Load)
        /\ (pc = "filter" => file.kind = "noTakes" /\ ENABLED Filter)
        /\ (pc = "error" => err \in {"SyntaxError", "TypeError"} /\ ~ENABLED Next)

\* C6 happens: the file parsed, had no takes field, and the run died of the
\* TypeError.
C6_Witness ==
    /\ file.kind = "noTakes"
    /\ pc = "error"
    /\ err = "TypeError"
    /\ out = <<>>

\* C7: no statement changes the file, no statement after the load changes
\* the loaded records, and counting leaves the matched records unchanged.
C7_NoMutation ==
    [][ /\ file' = file
        /\ (data.t = "object" => data' = data)
        /\ (pc \in {"count", "detect", "report"} => results' = results) ]_vars

\* C7 happens: the whole pipeline has run over several matches.
C7_Witness ==
    /\ pc = "done"
    /\ Len(results.v) > 1
    /\ Len(courseCount.v) > 1
    /\ data.takes = file.takes

\* C8: a later run of the pipeline on the same data produces the same
\* matched records, course counts, duplicates and output as the run before.
C8_Idempotent ==
    (run > 1 /\ pc = "done") =>
        /\ results = prev.results
        /\ courseCount = prev.courseCount
        /\ duplicates = prev.duplicates
        /\ out = prev.out

\* C8 happens: the second run has finished and reported a duplicate.
C8_Witness ==
    /\ run > 1
    /\ pc = "done"
    /\ duplicates.v # <<>>
    /\ Len(results.v) < Len(data.takes)

\* The matched records whose course_id is the string c.
WithCourse(c) == {i \in DOMAIN results.v : results.v[i].course_id = Str(c)}

MatchedCourses == {results.v[i].course_id.s : i \in DOMAIN results.v}

\* C2: detectDuplicates returns an entry (c, n) if and only if n is the
\* number of matched records whose course_id is c and n > 1, and no
\* course_id has two entries.
C2_DuplicatesIffCounted ==
    Detected =>
        LET dups == duplicates.v
        IN  /\ \A c \in MatchedCourses \cup {dups[i].key : i \in DOMAIN dups} :
                   \A n \in 0..(Len(results.v) + 1) :
                       (\E i \in DOMAIN dups : dups[i].key = c /\ dups[i].value = Num(n))
                           <=> (n = Cardinality(WithCourse(c)) /\ n > 1)
            /\ \A i \in DOMAIN dups : dups[i].value.t = "number"
            /\ \A i, j \in DOMAIN dups : dups[i].key = dups[j].key => i = j

\* C3: the keys of courseCount are exactly the course_ids of the matched
\* records, each with the number of matched records of that course_id as its
\* value, and the empty sequence gives the empty mapping.
C3_CountsPerCourse ==
    /\ CountByCourse(<<>>) = EmptyObject
    /\ Counted =>
           LET count == courseCount.v
           IN  /\ {count[i].key : i \in DOMAIN count} = MatchedCourses
               /\ \A i \in DOMAIN count :
                      count[i].value = Num(Cardinality(WithCourse(count[i].key)))
               /\ \A i, j \in DOMAIN count : count[i].key = count[j].key => i = j

\* The first matched record with course_id c.
FirstMatched(c) == CHOOSE i \in WithCourse(c) : \A j \in WithCourse(c) : i <= j

\* C9 as stated: the duplicate entries are in the order in which their
\* course_ids first occur among the matched records, whatever the form of
\* the course_id.
C9_FirstOccurrenceOrder ==
    Detected =>
        \A p, q \in DOMAIN duplicates.v :
            p < q <=> FirstMatched(duplicates.v[p].key) < FirstMatched(duplicates.v[q].key)

\* C9 amended: the duplicate entries whose course_id is the numeral of an
\* array index (an integer 0 .. 2^32 - 2, without sign or leading zero) come
\* first, in ascending numeric order; the entries of every other course_id
\* follow, in the order in which their course_ids first occur among the
\* matched records.
C9_EntriesOrder ==
    Detected =>
        \A p, q \in DOMAIN duplicates.v :
            LET a == duplicates.v[p].key
                b == duplicates.v[q].key
            IN  p < q <=>
                    \/ IsArrayIndex(a) /\ ~IsArrayIndex(b)
                    \/ IsArrayIndex(a) /\ IsArrayIndex(b) /\ NumeralLess(a, b)
                    \/ /\ ~IsArrayIndex(a)
                       /\ ~IsArrayIndex(b)
                       /\ FirstMatched(a) < FirstMatched(b)

\* C9 happens: a numeric course_id is reported before a course_id that was
\* matched earlier.
C9_Witness ==
    /\ pc = "done"
    /\ Len(duplicates.v) > 1
    /\ IsArrayIndex(duplicates.v[1].key)
    /\ FirstMatched(duplicates.v[2].key) < FirstMatched(duplicates.v[1].key)

\* C10: when the loaded rows satisfy the primary key of takes, every
\* reported duplicate (c, n) stands for n matched records of course c whose
\* sec_ids are pairwise different.
C10_DistinctSections ==
    (Detected /\ PrimaryKey(data.takes)) =>
        \A d \in DOMAIN duplicates.v :
            LET S == WithCourse(duplicates.v[d].key)
            IN  /\ duplicates.v[d].value = Num(Cardinality(S))
                /\ \A i, j \in S : i # j => results.v[i].sec_id # results.v[j].sec_id

\* C10 happens: under the primary key a course taken in two sections is
\* reported, next to another student's row of the same course and section.
C10_Witness ==
    /\ pc = "done"
    /\ PrimaryKey(data.takes)
    /\ duplicates.v # <<>>
    /\ \E i, j \in DOMAIN data.takes :
           /\ IsTarget(data.takes[i])
           /\ ~IsTarget(data.takes[j])
           /\ data.takes[i].course_id = data.takes[j].course_id
           /\ data.takes[i].sec_id = data.takes[j].sec_id

====
